---- MODULE Spec2Model ----
(***************************************************************************)
(* Model of app.py, the Flask backend of the e-grievance platform:         *)
(* validate_citizen_input, ai_categorize_and_score, smart_route_and_assign,*)
(* and the two endpoints submit_complaint and official_login.              *)
(*                                                                         *)
(* Python strings are TLA+ strings (TLC evaluates Len, SubSeq and \o on    *)
(* them).  A JSON request body is a function from the keys it holds to     *)
(* strings, so dict.get(key, default) is a test on its DOMAIN.             *)
(*                                                                         *)
(* Spec     : requests handled one at a time (each handler atomic).        *)
(* SpecConc : submit_complaint requests on concurrent threads, with        *)
(*            smart_route_and_assign interleaved statement by statement.   *)
(***************************************************************************)
EXTENDS Integers, Sequences, FiniteSets, TLC

VARIABLES OFFICER_WORKLOADS, hash_of, call, response, threads

vars == <<OFFICER_WORKLOADS, hash_of, call, response, threads>>

(***************************************************************************)
(* String primitives used by the source (str.split, str.endswith, `in`,    *)
(* str.lower, re.fullmatch character classes).                             *)
(***************************************************************************)
CharAt(s, i) == SubSeq(s, i, i)

Digits == "0123456789"

UpperAZ == "ABCDEFGHIJKLMNOPQRSTUVWXYZ"

LowerAZ == "abcdefghijklmnopqrstuvwxyz"

InClass(c, cls) == \E i \in 1..Len(cls) : CharAt(cls, i) = c

AllIn(s, cls) == \A i \in 1..Len(s) : InClass(CharAt(s, i), cls)

\* s.endswith(suffix)
EndsWith(s, suffix) ==
    /\ Len(suffix) <= Len(s)
    /\ SubSeq(s, Len(s) - Len(suffix) + 1, Len(s)) = suffix

\* sub in s
Contains(s, sub) ==
    \E i \in 1..(Len(s) - Len(sub) + 1) : SubSeq(s, i, i + Len(sub) - 1) = sub

\* s.split(sep)[0] for a one-character sep
SplitFirst(s, sep) ==
    LET hits == {i \in 1..Len(s) : CharAt(s, i) = sep}
    IN  IF hits = {} THEN s
        ELSE SubSeq(s, 1, (CHOOSE i \in hits : \A j \in hits : i <= j) - 1)

\* s.split(sep)[-1] for a one-character sep
SplitLast(s, sep) ==
    LET hits == {i \in 1..Len(s) : CharAt(s, i) = sep}
    IN  IF hits = {} THEN s
        ELSE SubSeq(s, (CHOOSE i \in hits : \A j \in hits : i >= j) + 1, Len(s))

LowerChar(c) ==
    IF InClass(c, UpperAZ)
    THEN CharAt(LowerAZ, CHOOSE i \in 1..Len(UpperAZ) : CharAt(UpperAZ, i) = c)
    ELSE c

RECURSIVE Lower(_)
\* s.lower()
Lower(s) == IF s = "" THEN "" ELSE LowerChar(CharAt(s, 1)) \o Lower(SubSeq(s, 2, Len(s)))

\* dict.get(key, default)
Get(data, key, default) == IF key \in DOMAIN data THEN data[key] ELSE default

\* `not data.get(key)`: the key is absent (None) or holds the empty string
Falsy(data, key) == key \notin DOMAIN data \/ data[key] = ""

(***************************************************************************)
(* Mock data stores.                                                       *)
(***************************************************************************)
\* iteration order of the OFFICER_WORKLOADS dict (insertion order)
OfficerOrder == <<"Officer_A_Water", "Officer_B_Water", "Officer_C_Roads", "Officer_D_Roads">>

Officers == {OfficerOrder[i] : i \in 1..Len(OfficerOrder)}

SeedWorkloads ==
    [o \in Officers |->
        CASE o = "Officer_A_Water" -> 12
          [] o = "Officer_B_Water" -> 5
          [] o = "Officer_C_Roads" -> 9
          [] o = "Officer_D_Roads" -> 15]

DefaultDepartment == "General_Admin_Dept"

DEPARTMENT_MAPPING ==
    ("Road Maintenance" :> "Public_Works_Dept") @@
    ("Water Supply" :> "Water_Supply_Dept") @@
    ("Sanitation" :> "Sanitation_Dept") @@
    ("Public Safety" :> "Law_Enforcement_Dept") @@
    ("Illegal Construction" :> "Town_Planning_Dept") @@
    ("Public Transport" :> "Transport_Dept") @@
    ("Health Services" :> "Health_Dept") @@
    ("Education Facilities" :> "Education_Dept") @@
    ("Noise Pollution" :> "Environment_Dept") @@
    ("Electricity" :> "Power_Dept") @@
    ("Drainage" :> "Water_Supply_Dept") @@
    ("Parks" :> "Urban_Development_Dept") @@
    ("Document Delays" :> "General_Admin_Dept") @@
    ("Official Misconduct" :> "Vigilance_Dept") @@
    ("Animal Control" :> "Animal_Control_Dept") @@
    ("Tree Felling" :> "Environment_Dept") @@
    ("Traffic Signals" :> "Traffic_Police_Dept") @@
    ("Taxes" :> "Revenue_Dept") @@
    ("Social Welfare" :> "Social_Welfare_Dept") @@
    ("Cyber" :> "IT_Dept") @@
    ("Other" :> "General_Admin_Dept")

OFFICIALS_DB ==
    ("john.doe@gov.in" :>
        [password_hash |-> "hashed_password_doe", govt_id |-> "GOV1001A",
         department |-> "Water_Supply_Dept", name |-> "John Doe"]) @@
    ("sara.smith@gov.in" :>
        [password_hash |-> "hashed_password_smith", govt_id |-> "GOV2002B",
         department |-> "Public_Works_Dept", name |-> "Sara Smith"])

(***************************************************************************)
(* validate_citizen_input                                                  *)
(***************************************************************************)
\* re.fullmatch(r'^\d{10}$', phone)
PhoneOk(phone) == Len(phone) = 10 /\ AllIn(phone, Digits)

\* re.fullmatch(r'^[0-9A-Z]{10,12}$', public_id)
PublicIdOk(public_id) ==
    /\ Len(public_id) >= 10
    /\ Len(public_id) <= 12
    /\ AllIn(public_id, Digits \o UpperAZ)

\* re.fullmatch(r'^[a-zA-Z0-9._%+-]+@[a-zA-Z0-9.-]+\.[a-zA-Z]{2,}$', email):
\* some '@' at i and some later '.' at j split the string into a non-empty
\* local part, a non-empty domain and a final label of two or more letters.
EmailOk(email) ==
    LET n == Len(email)
        alnum == LowerAZ \o UpperAZ \o Digits
    IN  \E i \in 1..n, j \in 1..n :
            /\ CharAt(email, i) = "@"
            /\ CharAt(email, j) = "."
            /\ 1 < i
            /\ i + 1 < j
            /\ n - j >= 2
            /\ AllIn(SubSeq(email, 1, i - 1), alnum \o "._%+-")
            /\ AllIn(SubSeq(email, i + 1, j - 1), alnum \o ".-")
            /\ AllIn(SubSeq(email, j + 1, n), LowerAZ \o UpperAZ)

ErrorMessage(field) ==
    CASE field = "phone" -> "Phone number must be exactly 10 digits."
      [] field = "public_id" -> "Public ID must be 10 to 12 alphanumeric characters."
      [] field = "email" -> "Invalid email format."

\* the errors dict: a function from the failing fields to their messages
validate_citizen_input(data) ==
    LET phone == Get(data, "phone", "")
        public_id == Get(data, "public_id", "")
        email == Get(data, "email", "")
        failing == {f \in {"phone", "public_id", "email"} :
                       \/ f = "phone" /\ ~PhoneOk(phone)
                       \/ f = "public_id" /\ ~PublicIdOk(public_id)
                       \/ f = "email" /\ ~EmailOk(email)}
    IN  [f \in failing |-> ErrorMessage(f)]

(***************************************************************************)
(* ai_categorize_and_score; jitter is the value of random.randint(0, 2).   *)
(***************************************************************************)
Jitter == 0..2

CriticalKeywords == <<"dangerous", "urgent", "fatal", "flooding">>

Min(a, b) == IF a <= b THEN a ELSE b

\* the score without its cap
ClampScoreUncapped(priority_score) == priority_score

\* min(10, priority_score)
ClampScore(priority_score) == Min(10, priority_score)

RefinedCategory(keywords, citizen_category) ==
    IF Contains(keywords, "pothole") \/ Contains(keywords, "cracked road")
    THEN "Pothole_Major"
    ELSE IF Contains(keywords, "leakage") \/ Contains(keywords, "no water")
         THEN "Water_Leakage_Critical"
         ELSE citizen_category

ai_categorize_and_score(description, citizen_category, jitter) ==
    LET keywords == Lower(description)
        refined_category == RefinedCategory(keywords, citizen_category)
        critical_keywords_found ==
            Len(SelectSeq(CriticalKeywords, LAMBDA word : Contains(keywords, word)))
        base_score == 3 + jitter + critical_keywords_found * 2
        priority_score ==
            IF \/ Contains(Lower(refined_category), "critical")
               \/ Contains(Lower(citizen_category), "safety")
            THEN base_score + 2
            ELSE base_score
    IN  [refined_category |-> refined_category,
         priority_score |-> ClampScore(priority_score)]

(***************************************************************************)
(* smart_route_and_assign                                                  *)
(***************************************************************************)
\* a lookup that also accepts a key the base category is a prefix of
DepartmentGetByPrefix(base_category) ==
    LET n == Len(base_category)
        keys == {key \in DOMAIN DEPARTMENT_MAPPING :
                    n <= Len(key) /\ SubSeq(key, 1, n) = base_category}
    IN  IF base_category \in DOMAIN DEPARTMENT_MAPPING
        THEN DEPARTMENT_MAPPING[base_category]
        ELSE IF keys # {} THEN DEPARTMENT_MAPPING[CHOOSE key \in keys : TRUE]
        ELSE DefaultDepartment

\* DEPARTMENT_MAPPING.get(base_category, 'General_Admin_Dept')
DepartmentGet(base_category) == Get(DEPARTMENT_MAPPING, base_category, DefaultDepartment)

TargetDepartment(refined_category) == DepartmentGet(SplitFirst(refined_category, "_"))

\* k.endswith(dept_prefix.split('_')[0])
OfficerMatches(k, dept_prefix) == EndsWith(k, SplitFirst(dept_prefix, "_"))

\* the keys of department_officers, in the dict's iteration order
MatchingOfficers(target_department) ==
    LET dept_prefix == SplitFirst(target_department, "_")
    IN  SelectSeq(OfficerOrder, LAMBDA k : OfficerMatches(k, dept_prefix))

ManagerOf(target_department) == target_department \o "_Manager"

\* the override with a strict comparison
PriorityOverrideStrict(priority_score) == priority_score > 8

\* priority_score >= 8
PriorityOverride(priority_score) == priority_score >= 8

\* a selection that breaks ties by the last key
MinOfficerLastOnTie(department_officers) ==
    LET n == Len(department_officers)
        i == CHOOSE i \in 1..n :
                 /\ \A j \in 1..n : department_officers[i].v <= department_officers[j].v
                 /\ \A j \in (i + 1)..n : department_officers[j].v > department_officers[i].v
    IN  department_officers[i].k

\* a selection of the busiest officer
MaxOfficer(department_officers) ==
    LET n == Len(department_officers)
        i == CHOOSE i \in 1..n :
                 \A j \in 1..n : department_officers[i].v >= department_officers[j].v
    IN  department_officers[i].k

\* min(department_officers, key=department_officers.get) on a snapshot, a
\* sequence of [k, v] items in iteration order: the first key whose value no
\* other value is below.
MinOfficer(department_officers) ==
    LET n == Len(department_officers)
        i == CHOOSE i \in 1..n :
                 /\ \A j \in 1..n : department_officers[i].v <= department_officers[j].v
                 /\ \A j \in 1..(i - 1) : department_officers[j].v > department_officers[i].v
    IN  department_officers[i].k

\* an increment by two
IncrementTwice(count) == count + 2

\* OFFICER_WORKLOADS[assigned_officer] += 1, on the value read
Increment(count) == count + 1

(***************************************************************************)
(* Bounds and the request bodies the endpoints are driven with.            *)
(***************************************************************************)
\* no officer's open-case count is driven above MaxCount
MaxCount == 13

\* number of concurrent submit_complaint requests in SpecConc
NThreads == 2

Threads == 1..NThreads

\* marks a key the request body does not hold
Absent == "<absent>"

Field(key, value) == IF value = Absent THEN <<>> ELSE key :> value

PhoneValues == {"9876543210", "98765", Absent}

PublicIdValues == {"AB12345678", "ab12345678"}

EmailValues == {"a@b.com", "a@b"}

Descriptions ==
    {"Major pothole causing dangerous flooding",
     "No Water since morning",
     "Tap is dry",
     "Dangerous open drain",
     "URGENT: dangerous, fatal flooding"}

CategoryValues ==
    {"Water Supply", "Drainage", "Road Maintenance", "Public Safety",
     "Water Supply_Safety", Absent}

ContactFields(phone, public_id, email) ==
    Field("phone", phone) @@ Field("public_id", public_id) @@ Field("email", email)

ComplaintFields(description, category) ==
    Field("description", description) @@ Field("category", category)

\* every complaint with acceptable contact fields, and every combination of
\* contact fields with one complaint
Submissions ==
    {ContactFields("9876543210", "AB12345678", "a@b.com") @@ ComplaintFields(d, c) :
        d \in Descriptions, c \in CategoryValues}
    \cup
    {ContactFields(ph, id, em) @@ ComplaintFields("Tap is dry", "Water Supply") :
        ph \in PhoneValues, id \in PublicIdValues, em \in EmailValues}

\* int(time.time() * 1000) at two instants
ClockSamples == {1234567, 2000000}

\* hash(username) is fixed per process by the interpreter's hash seed: the
\* tables of two processes
HashTables ==
    {("john.doe@gov.in" :> -7) @@ ("sara.smith@gov.in" :> 42),
     ("john.doe@gov.in" :> 42) @@ ("sara.smith@gov.in" :> 5)}

LoginRequests ==
    {Field("username", u) @@ Field("password", p) @@ Field("govt_id", g) :
        u \in {"john.doe@gov.in", "sara.smith@gov.in", "eve@gov.in", Absent},
        p \in {"hashed_password_doe", "hashed_password_smith", "wrong", Absent},
        g \in {"GOV1001A", "GOV2002B", "GOV0000X", ""}}

(***************************************************************************)
(* The pure calls of the handlers, evaluated once per request body.        *)
(***************************************************************************)
validation_of == [data \in Submissions |-> validate_citizen_input(data)]

classification_of ==
    [data \in Submissions, jitter \in Jitter |->
        ai_categorize_and_score(Get(data, "description", ""),
                                Get(data, "category", "Other"), jitter)]

RefinedCategories ==
    {classification_of[x].refined_category : x \in DOMAIN classification_of}

\* lines 124-125 for each refined category the classifier returns
target_department_of == [rc \in RefinedCategories |-> TargetDepartment(rc)]

\* lines 127-130: the keys the comprehension keeps
matching_officers_of ==
    [rc \in RefinedCategories |-> MatchingOfficers(target_department_of[rc])]

\* the sequential form of the whole function: the snapshot of lines 128-130,
\* the two manager returns, and the read-select-increment of lines 140-142
smart_route_and_assign(workloads, refined_category, priority_score) ==
    LET target_department == target_department_of[refined_category]
        keys == matching_officers_of[refined_category]
        department_officers == [i \in 1..Len(keys) |-> [k |-> keys[i], v |-> workloads[keys[i]]]]
    IN  IF Len(department_officers) = 0
        THEN [target_department |-> target_department,
              assigned_officer |-> ManagerOf(target_department),
              workloads |-> workloads]
        ELSE IF PriorityOverride(priority_score)
        THEN [target_department |-> target_department,
              assigned_officer |-> ManagerOf(target_department),
              workloads |-> workloads]
        ELSE LET assigned_officer == MinOfficer(department_officers)
             IN  [target_department |-> target_department,
                  assigned_officer |-> assigned_officer,
                  workloads |-> [workloads EXCEPT
                                    ![assigned_officer] = Increment(workloads[assigned_officer])]]

\* generate_unique_id, now == int(time.time() * 1000)
generate_unique_id(now) == "GRV-" \o ToString(now % 1000000)

\* a handler that never takes the early return
ValidationNeverFails(validation_errors) == FALSE

\* `if validation_errors:`
ValidationFailed(validation_errors) == DOMAIN validation_errors # {}

(***************************************************************************)
(* Endpoints, one request at a time.  Request bodies are JSON objects with *)
(* string values, on which no statement of the handlers raises, so the     *)
(* except branch of submit_complaint (lines 191-193) is not taken.         *)
(***************************************************************************)
Init ==
    /\ OFFICER_WORKLOADS = SeedWorkloads
    /\ hash_of \in HashTables
    /\ call = [op |-> "none"]
    /\ response = [status |-> 0]
    /\ threads = [t \in Threads |-> [pc |-> "idle"]]

ValidationFailure(validation_errors) ==
    [status |-> 400,
     body |-> [success |-> FALSE,
               message |-> "One or more input fields failed server validation.",
               errors |-> validation_errors]]

SubmitSuccess(tracking_id, assigned_officer, priority_score) ==
    [status |-> 200,
     body |-> [success |-> TRUE,
               tracking_id |-> tracking_id,
               status |-> "Under Review",
               assigned_to |-> assigned_officer,
               priority |-> priority_score]]

submit_complaint(data, jitter, now) ==
    LET validation_errors == validation_of[data]
    IN  IF ValidationFailed(validation_errors)
        THEN /\ call' = [op |-> "submit_complaint", data |-> data,
                         validation_errors |-> validation_errors]
             /\ response' = ValidationFailure(validation_errors)
             /\ UNCHANGED <<OFFICER_WORKLOADS, hash_of, threads>>
        ELSE LET tracking_id == generate_unique_id(now)
                 ai == classification_of[data, jitter]
                 routed == smart_route_and_assign(OFFICER_WORKLOADS,
                                                  ai.refined_category, ai.priority_score)
             IN  /\ \A o \in Officers : routed.workloads[o] # OFFICER_WORKLOADS[o]
                                          => routed.workloads[o] <= MaxCount
                 /\ OFFICER_WORKLOADS' = routed.workloads
                 /\ call' = [op |-> "submit_complaint", data |-> data,
                             validation_errors |-> validation_errors,
                             jitter |-> jitter,
                             refined_category |-> ai.refined_category,
                             priority_score |-> ai.priority_score,
                             target_department |-> routed.target_department,
                             assigned_officer |-> routed.assigned_officer]
                 /\ response' = SubmitSuccess(tracking_id, routed.assigned_officer,
                                              ai.priority_score)
                 /\ UNCHANGED <<hash_of, threads>>

LoginFailure(status, message) ==
    [status |-> status, body |-> [success |-> FALSE, message |-> message]]

\* f"hashed_password_{username.split('@')[0].split('.')[-1]}"
DerivedCredential(username) ==
    "hashed_password_" \o SplitLast(SplitFirst(username, "@"), ".")

\* the response of official_login to the request body `data`
LoginResponse(data, hashes) ==
    IF Falsy(data, "username") \/ Falsy(data, "password") \/ Falsy(data, "govt_id")
    THEN LoginFailure(400, "Missing required fields (Username, Password, Govt ID).")
    ELSE IF data["username"] \notin DOMAIN OFFICIALS_DB
    THEN LoginFailure(401, "Authentication failed: Invalid credentials.")
    ELSE LET username == data["username"]
             official_record == OFFICIALS_DB[username]
         IN  IF official_record.password_hash # DerivedCredential(username)
             THEN LoginFailure(401, "Authentication failed: Invalid credentials.")
             ELSE IF official_record.govt_id # data["govt_id"]
             THEN LoginFailure(401, "Authentication failed: Unique Government ID mismatch.")
             ELSE [status |-> 200,
                   body |-> [success |-> TRUE,
                             message |-> "Login successful.",
                             token |-> "JWT." \o official_record.department \o "."
                                           \o ToString(hashes[username]),
                             department |-> official_record.department,
                             official_name |-> official_record.name]]

official_login(data) ==
    /\ call' = [op |-> "official_login", data |-> data]
    /\ response' = LoginResponse(data, hash_of)
    /\ UNCHANGED <<OFFICER_WORKLOADS, hash_of, threads>>

Next ==
    \/ \E data \in Submissions, jitter \in Jitter, now \in ClockSamples :
           submit_complaint(data, jitter, now)
    \/ \E data \in LoginRequests : official_login(data)

Spec == Init /\ [][Next]_vars

(***************************************************************************)
(* submit_complaint on concurrent threads (the development server handles  *)
(* each request on its own thread).  threads[t] is the frame of thread t:  *)
(* its position pc and its locals.  Statements that touch only locals are  *)
(* joined to the next access of OFFICER_WORKLOADS.                         *)
(***************************************************************************)
ConcSubmissions ==
    {ContactFields("9876543210", "AB12345678", "a@b.com") @@ ComplaintFields(d, c) :
        d \in {"Tap is dry"}, c \in {"Water Supply", "Drainage", "Road Maintenance"}}
    \cup
    {ContactFields("9876543210", "AB12345678", "a@b.com")
        @@ ComplaintFields("URGENT: dangerous, fatal flooding", "Water Supply"),
     ContactFields(Absent, "AB12345678", "a@b.com")
        @@ ComplaintFields("Tap is dry", "Water Supply")}

\* lines 152-172 and 124-127: validation, the tracking id, classification,
\* and the department of the refined category
Receive(t, data, jitter, now) ==
    /\ threads[t].pc = "idle"
    /\ LET validation_errors == validation_of[data]
       IN  IF ValidationFailed(validation_errors)
           THEN threads' = [threads EXCEPT ![t] =
                    [pc |-> "done", data |-> data,
                     response |-> ValidationFailure(validation_errors)]]
           ELSE LET ai == classification_of[data, jitter]
                    target_department == target_department_of[ai.refined_category]
                IN  threads' = [threads EXCEPT ![t] =
                        [pc |-> "snapshot", data |-> data,
                         tracking_id |-> generate_unique_id(now),
                         refined_category |-> ai.refined_category,
                         priority_score |-> ai.priority_score,
                         target_department |-> target_department,
                         dept_prefix |-> SplitFirst(target_department, "_"),
                         i |-> 1,
                         department_officers |-> <<>>]]
    /\ UNCHANGED <<OFFICER_WORKLOADS, hash_of, call, response>>

\* one iteration of the comprehension of lines 128-130 over
\* OFFICER_WORKLOADS.items()
SnapshotItem(t) ==
    LET f == threads[t]
    IN  /\ f.pc = "snapshot"
        /\ f.i <= Len(OfficerOrder)
        /\ LET k == OfficerOrder[f.i]
               v == OFFICER_WORKLOADS[k]
           IN  threads' = [threads EXCEPT ![t] =
                   [f EXCEPT !.i = f.i + 1,
                             !.department_officers =
                                 IF OfficerMatches(k, f.dept_prefix)
                                 THEN Append(f.department_officers, [k |-> k, v |-> v])
                                 ELSE f.department_officers]]
        /\ UNCHANGED <<OFFICER_WORKLOADS, hash_of, call, response>>

\* lines 132-137: the two manager returns, and the response of lines 181-189
ReturnManager(t) ==
    LET f == threads[t]
    IN  /\ f.pc = "snapshot"
        /\ f.i > Len(OfficerOrder)
        /\ Len(f.department_officers) = 0 \/ PriorityOverride(f.priority_score)
        /\ threads' = [threads EXCEPT ![t] =
               [pc |-> "done", data |-> f.data,
                refined_category |-> f.refined_category,
                priority_score |-> f.priority_score,
                target_department |-> f.target_department,
                assigned_officer |-> ManagerOf(f.target_department),
                response |-> SubmitSuccess(f.tracking_id, ManagerOf(f.target_department),
                                           f.priority_score)]]
        /\ UNCHANGED <<OFFICER_WORKLOADS, hash_of, call, response>>

\* line 140, and the read of OFFICER_WORKLOADS[assigned_officer] in line 142
Load(t) ==
    LET f == threads[t]
    IN  /\ f.pc = "snapshot"
        /\ f.i > Len(OfficerOrder)
        /\ Len(f.department_officers) > 0
        /\ ~PriorityOverride(f.priority_score)
        /\ LET assigned_officer == MinOfficer(f.department_officers)
           IN  threads' = [threads EXCEPT ![t] =
                   [pc |-> "store", data |-> f.data,
                    tracking_id |-> f.tracking_id,
                    refined_category |-> f.refined_category,
                    priority_score |-> f.priority_score,
                    target_department |-> f.target_department,
                    assigned_officer |-> assigned_officer,
                    loaded |-> OFFICER_WORKLOADS[assigned_officer]]]
        /\ UNCHANGED <<OFFICER_WORKLOADS, hash_of, call, response>>

\* the write of line 142, and the response of lines 181-189
Store(t) ==
    LET f == threads[t]
    IN  /\ f.pc = "store"
        /\ OFFICER_WORKLOADS' =
               [OFFICER_WORKLOADS EXCEPT ![f.assigned_officer] = Increment(f.loaded)]
        /\ threads' = [threads EXCEPT ![t] =
               [pc |-> "done", data |-> f.data,
                refined_category |-> f.refined_category,
                priority_score |-> f.priority_score,
                target_department |-> f.target_department,
                assigned_officer |-> f.assigned_officer,
                response |-> SubmitSuccess(f.tracking_id, f.assigned_officer,
                                           f.priority_score)]]
        /\ UNCHANGED <<hash_of, call, response>>

NextConc ==
    \/ \E t \in Threads, data \in ConcSubmissions, jitter \in Jitter, now \in ClockSamples :
           Receive(t, data, jitter, now)
    \/ \E t \in Threads : SnapshotItem(t)
    \/ \E t \in Threads : ReturnManager(t)
    \/ \E t \in Threads : Load(t)
    \/ \E t \in Threads : Store(t)

SpecConc == Init /\ [][NextConc]_vars

(***************************************************************************)
(* Properties.                                                             *)
(***************************************************************************)
IsSubmit(c) == c.op = "submit_complaint"

\* the request went through smart_route_and_assign
Routed(c) == IsSubmit(c) /\ "assigned_officer" \in DOMAIN c

IndexOf(officer) == CHOOSE i \in 1..Len(OfficerOrder) : OfficerOrder[i] = officer

\* the officers whose id ends with the leading token of the department
AffineOfficers(department) ==
    {o \in Officers : EndsWith(o, SplitFirst(department, "_"))}

RECURSIVE SumOver(_, _)
SumOver(f, S) ==
    IF S = {} THEN 0
    ELSE LET x == CHOOSE x \in S : TRUE IN f[x] + SumOver(f, S \ {x})

\* C1: when all NThreads concurrent requests have finished, and all were
\* routed to one department that has officers with a score below 8, the
\* officers' counts have risen by NThreads in total (no increment is lost).
C1_NoLostUpdate ==
    ( /\ \A t \in Threads : threads[t].pc = "done" /\ "priority_score" \in DOMAIN threads[t]
      /\ \A t \in Threads :
            /\ threads[t].priority_score < 8
            /\ threads[t].target_department = threads[1].target_department
      /\ AffineOfficers(threads[1].target_department) # {} )
    => SumOver(OFFICER_WORKLOADS, Officers) - SumOver(SeedWorkloads, Officers) = NThreads

\* C2: a request routed with a score of 8 or more is assigned to
\* "<resolved department>_Manager" and changes no officer's count.
C2_PriorityOverride ==
    [][ (Routed(call') /\ call'.priority_score >= 8)
        => /\ call'.target_department =
                  Get(DEPARTMENT_MAPPING, SplitFirst(call'.refined_category, "_"),
                      "General_Admin_Dept")
           /\ call'.assigned_officer = call'.target_department \o "_Manager"
           /\ EndsWith(call'.assigned_officer, "_Manager")
           /\ response'.body.assigned_to = call'.assigned_officer
           /\ OFFICER_WORKLOADS' = OFFICER_WORKLOADS ]_vars

\* C2 witness: a score of 8 or more for a department that has officers
C2_Witness ==
    /\ Routed(call)
    /\ call.priority_score >= 8
    /\ AffineOfficers(call.target_department) # {}
    /\ response.body.assigned_to = "Water_Supply_Dept_Manager"

\* C3: a request routed with a score below 8 to a department with officers is
\* assigned to the officer of that department with the lowest count, the first
\* in iteration order on a tie; that count rises by 1 and no other changes.
\* With counts 12 and 5 the officer with 5 is chosen and its count becomes 6.
C3_LoadBalancing ==
    [][ (/\ Routed(call')
         /\ call'.priority_score < 8
         /\ AffineOfficers(call'.target_department) # {})
        => LET a == call'.assigned_officer
               M == AffineOfficers(call'.target_department)
           IN  /\ a \in M
               /\ response'.body.assigned_to = a
               /\ \A o \in M : OFFICER_WORKLOADS[a] <= OFFICER_WORKLOADS[o]
               /\ \A o \in M : OFFICER_WORKLOADS[o] = OFFICER_WORKLOADS[a]
                                  => IndexOf(a) <= IndexOf(o)
               /\ OFFICER_WORKLOADS' =
                      [OFFICER_WORKLOADS EXCEPT ![a] = OFFICER_WORKLOADS[a] + 1]
               /\ (/\ OFFICER_WORKLOADS["Officer_A_Water"] = 12
                   /\ OFFICER_WORKLOADS["Officer_B_Water"] = 5
                   /\ M = {"Officer_A_Water", "Officer_B_Water"})
                  => /\ a = "Officer_B_Water"
                     /\ OFFICER_WORKLOADS'["Officer_B_Water"] = 6
                     /\ OFFICER_WORKLOADS'["Officer_A_Water"] = 12 ]_vars

\* C3 witness: the assignment made on the tie at 12 and 12
C3_Witness ==
    /\ Routed(call)
    /\ call.priority_score < 8
    /\ call.assigned_officer = "Officer_A_Water"
    /\ OFFICER_WORKLOADS["Officer_A_Water"] = 13
    /\ OFFICER_WORKLOADS["Officer_B_Water"] = 12

CorrectTriple(username) ==
    Field("username", username)
        @@ Field("password", OFFICIALS_DB[username].password_hash)
        @@ Field("govt_id", OFFICIALS_DB[username].govt_id)

Truthy(data) == ~Falsy(data, "username") /\ ~Falsy(data, "password") /\ ~Falsy(data, "govt_id")

InvalidCredentials(r) ==
    /\ r.status = 401
    /\ r.body.success = FALSE
    /\ r.body.message = "Authentication failed: Invalid credentials."

GovtIdMismatch(r) ==
    /\ r.status = 401
    /\ r.body.success = FALSE
    /\ r.body.message = "Authentication failed: Unique Government ID mismatch."

\* C4: the correct triple of a directory entry logs in with the entry's
\* department and name; with one field of the triple changed (the username to
\* one not in the directory, the password or the govt_id to another non-empty
\* value) the login fails, with InvalidCredentials for username or password
\* and GovtIdMismatch for govt_id.
C4_LoginDecision ==
    (call.op = "official_login" /\ Truthy(call.data))
    => \A u \in DOMAIN OFFICIALS_DB :
          LET d == call.data
              ok == CorrectTriple(u)
          IN  /\ d = ok
                 => /\ response.status = 200
                    /\ response.body.success
                    /\ response.body.department = OFFICIALS_DB[u].department
                    /\ response.body.official_name = OFFICIALS_DB[u].name
              /\ (/\ d["username"] \notin DOMAIN OFFICIALS_DB
                  /\ d["password"] = ok["password"]
                  /\ d["govt_id"] = ok["govt_id"])
                 => InvalidCredentials(response)
              /\ (/\ d["username"] = u
                  /\ d["password"] # ok["password"]
                  /\ d["govt_id"] = ok["govt_id"])
                 => InvalidCredentials(response)
              /\ (/\ d["username"] = u
                  /\ d["password"] = ok["password"]
                  /\ d["govt_id"] # ok["govt_id"])
                 => GovtIdMismatch(response)

ValidPassword(username, password) ==
    username \in DOMAIN OFFICIALS_DB /\ OFFICIALS_DB[username].password_hash = password

\* C5: a login whose password is valid for neither of two usernames, one in
\* the directory and one not, gets the same message and status for both.
C5_NoUsernameEnumeration ==
    (call.op = "official_login" /\ Truthy(call.data))
    => \A other \in {"john.doe@gov.in", "sara.smith@gov.in", "eve@gov.in", "mallory@gov.in"} :
          LET d == call.data
              r == LoginResponse([d EXCEPT !["username"] = other], hash_of)
          IN  (/\ (d["username"] \in DOMAIN OFFICIALS_DB) # (other \in DOMAIN OFFICIALS_DB)
               /\ ~ValidPassword(d["username"], d["password"])
               /\ ~ValidPassword(other, d["password"]))
              => /\ r.status = response.status
                 /\ r.body.message = response.body.message

ContactKeys == {"phone", "public_id", "email"}

\* C6: a submission for which validate_citizen_input returns errors (a missing
\* contact field, a short phone, a lower-case public_id or an email without a
\* final label always gives one) is answered with a failure carrying those
\* errors, is neither classified nor routed, and changes no officer's count.
C6_ValidationRejects ==
    [][ IsSubmit(call')
        => /\ (\E f \in ContactKeys : f \notin DOMAIN call'.data)
              => DOMAIN call'.validation_errors # {}
           /\ ("phone" \in DOMAIN call'.data /\ Len(call'.data["phone"]) # 10)
              => "phone" \in DOMAIN call'.validation_errors
           /\ call'.data["public_id"] = "ab12345678"
              => "public_id" \in DOMAIN call'.validation_errors
           /\ call'.data["email"] = "a@b"
              => "email" \in DOMAIN call'.validation_errors
           /\ DOMAIN call'.validation_errors # {}
              => /\ response'.status = 400
                 /\ response'.body.success = FALSE
                 /\ response'.body.errors = call'.validation_errors
                 /\ \A f \in ContactKeys : f \notin DOMAIN call'.data
                                              => f \in DOMAIN response'.body.errors
                 /\ "refined_category" \notin DOMAIN call'
                 /\ "assigned_officer" \notin DOMAIN call'
                 /\ OFFICER_WORKLOADS' = OFFICER_WORKLOADS ]_vars

\* C6 witness: a submission without a phone field, rejected
C6_Witness ==
    /\ IsSubmit(call)
    /\ "phone" \notin DOMAIN call.data
    /\ response.status = 400
    /\ DOMAIN response.body.errors = {"phone"}

C8_ScoreRange ==
    Routed(call)
    => /\ call.priority_score \in 3..10
       /\ response.body.priority = call.priority_score
       /\ (call.data["description"] = "Tap is dry" /\ call.refined_category = "Drainage")
          => call.priority_score = 3 + call.jitter
       /\ call.data["description"] = "URGENT: dangerous, fatal flooding"
          => call.priority_score = 10

\* C8 witness: four critical keywords and the largest jitter, capped at 10
C8_Witness ==
    /\ Routed(call)
    /\ call.data["description"] = "URGENT: dangerous, fatal flooding"
    /\ call.jitter = 2
    /\ call.priority_score = 10

WaterBases == {"Water Supply", "Drainage"}

\* C9: the counts of Officer_C_Roads and Officer_D_Roads stay 9 and 15; a
\* count changes only for a request whose refined category reads
\* "Water Supply" or "Drainage" before its first underscore, and then only a
\* Water officer's; every other routed request goes to a manager sentinel.
C9_OnlyWaterOfficers ==
    [][ /\ OFFICER_WORKLOADS'["Officer_C_Roads"] = 9
        /\ OFFICER_WORKLOADS'["Officer_D_Roads"] = 15
        /\ OFFICER_WORKLOADS' # OFFICER_WORKLOADS
           => /\ Routed(call')
              /\ SplitFirst(call'.refined_category, "_") \in WaterBases
              /\ call'.assigned_officer \in {"Officer_A_Water", "Officer_B_Water"}
        /\ (Routed(call') /\ SplitFirst(call'.refined_category, "_") \notin WaterBases)
           => /\ call'.assigned_officer = call'.target_department \o "_Manager"
              /\ response'.body.assigned_to = call'.assigned_officer ]_vars

\* C9 witness: a complaint reclassified to Water_Leakage_Critical, score
\* below 8, assigned to the manager of the default department
C9_Witness ==
    /\ Routed(call)
    /\ call.refined_category = "Water_Leakage_Critical"
    /\ call.priority_score < 8
    /\ response.body.assigned_to = "General_Admin_Dept_Manager"

Max(a, b) == IF a >= b THEN a ELSE b

\* officers grouped by the department token that ends their id
DepartmentGroups == {{p \in Officers : SplitLast(p, "_") = SplitLast(o, "_")} : o \in Officers}

\* highest minus lowest count in a group
Spread(workloads, group) ==
    LET hi == CHOOSE x \in group : \A y \in group : workloads[x] >= workloads[y]
        lo == CHOOSE x \in group : \A y \in group : workloads[x] <= workloads[y]
    IN  workloads[hi] - workloads[lo]

\* C10: with requests handled one at a time no count decreases; within a
\* department the spread of counts never exceeds max(its seed value, 1); an
\* assignment lowers a spread of 1 or more by 1; a spread of at most 1 stays
\* at most 1.
C10_SpreadShrinks ==
    [][ /\ \A o \in Officers : OFFICER_WORKLOADS'[o] >= OFFICER_WORKLOADS[o]
        /\ \A g \in DepartmentGroups :
              /\ Spread(OFFICER_WORKLOADS', g) <= Max(Spread(SeedWorkloads, g), 1)
              /\ (/\ \E o \in g : OFFICER_WORKLOADS'[o] # OFFICER_WORKLOADS[o]
                  /\ Spread(OFFICER_WORKLOADS, g) >= 1)
                 => Spread(OFFICER_WORKLOADS', g) = Spread(OFFICER_WORKLOADS, g) - 1
              /\ Spread(OFFICER_WORKLOADS, g) <= 1 => Spread(OFFICER_WORKLOADS', g) <= 1
      ]_vars

\* C10 witness: both Water officers level, past the tie at 12
C10_Witness ==
    /\ OFFICER_WORKLOADS["Officer_A_Water"] = 13
    /\ OFFICER_WORKLOADS["Officer_B_Water"] = 13
    /\ Routed(call)
    /\ call.assigned_officer = "Officer_B_Water"
====
